---- MODULE Spec2Model ----
(***************************************************************************)
(* Retrieval pipeline of scout: RepoService (clone cache), IndexingService *)
(* (file loop, chunker, batch flush), EmbeddingService (content cache) and *)
(* VectorStore (in-memory backend).                                        *)
(*                                                                         *)
(* Scheduling is asyncio's: a coroutine runs without interruption until it *)
(* awaits something that really suspends.  The only such await on the      *)
(* indexing path is the git subprocess of RepoService._clone_repo;         *)
(* embed_batch, add_batch and delete_by_repo are async functions with no   *)
(* suspending await inside.  So one action is the code between two         *)
(* suspensions of a task.                                                  *)
(***************************************************************************)
EXTENDS Integers, Sequences, FiniteSets, TLC

\* ------------------------------------------------------------------ bounds
MaxTime == 1          \* the clock runs 0..MaxTime (hours)
CacheTtl == 1         \* RepoServiceConfig.cache_ttl_hours, scaled down
ChunkSize == 8        \* IndexingConfig.chunk_size, scaled down
ChunkOverlap == 3     \* IndexingConfig.chunk_overlap, scaled down
BatchSize == 2        \* IndexingConfig.batch_size, scaled down
EmbBatchSize == 2     \* EmbeddingConfig.batch_size, scaled down
MaxTexts == 4         \* the longest list handed to embed_many directly
MaxTopK == 3          \* top_k of a search ranges over 0..MaxTopK
DefaultTopK == 1      \* SearchTool.default_top_k, scaled down
MaxLines == 4         \* the longest content handed to the chunker directly
MaxFiles == 2         \* the most files of a checkout handed to the file loop
ToolChunkSize == 4    \* CodeIndexerTool.chunk_size, scaled down
MaxContent == 6       \* the longest content handed to CodeIndexerTool
MaxToolChunks == 8    \* the chunks after which the tool's loop is cut off

None == "none"
NoTime == 0 - 1       \* a cloned_at that is None

VARIABLES
    now,          \* wall clock, datetime.now()
    disk,         \* per cache key: the target directory, absent/partial/complete
    repoCache,    \* RepoService._repo_cache: key -> RepoInfo or None
    indexedRepos, \* IndexingService._indexed_repos (its key set)
    store,        \* InMemoryBackend._store: id -> entry
    embCache,     \* EmbeddingService._cache: key -> vector
    task,         \* per task: where its coroutine is suspended
    ret,          \* the result of the call that returned last
    okSince,      \* history: urls with a successful run since the last clear
    prevRun       \* history: per url, the outcome of its last complete forced run

vars == <<now, disk, repoCache, indexedRepos, store, embCache, task, ret,
          okSince, prevRun>>

\* ------------------------------------------------------------ generic helpers
RECURSIVE SumLen(_)
SumLen(ls) == IF ls = <<>> THEN 0 ELSE Len(Head(ls)) + 1 + SumLen(Tail(ls))

Min(a, b) == IF a <= b THEN a ELSE b

SeqToSet(s) == {s[i] : i \in 1..Len(s)}

\* ------------------------------------------------------------------ URLs
\* The references the callers pass.  UA and UAgit name the same GitHub
\* repository (the second with the .git suffix), UBad is no GitHub URL.
UA == "https://github.com/o/a"
UAgit == "https://github.com/o/a.git"
UBad == "not-a-url"
GoodUrls == {UA, UAgit}
Urls == GoodUrls \cup {UBad}

\* parse_github_url: owner, name (".git" stripped), canonical url; Invalid
\* when no pattern matches (the code raises ValueError).
Invalid == [owner |-> None, name |-> None, url |-> None]

ParseGithubUrl(u) ==
    CASE u = UA    -> [owner |-> "o", name |-> "a", url |-> "https://github.com/o/a"]
      [] u = UAgit -> [owner |-> "o", name |-> "a", url |-> "https://github.com/o/a"]
      [] OTHER     -> Invalid

\* _get_cache_key: f"{owner}/{name}"
GetCacheKey(info) == <<info.owner, info.name>>

Keys == {GetCacheKey(ParseGithubUrl(u)) : u \in GoodUrls}

\* ------------------------------------------------------ the remote repository
\* The files a complete checkout of o/a holds, in enumeration order.  kind:
\*   text      readable as UTF-8
\*   latin1    not UTF-8, readable as latin-1
\*   oversize  st_size above max_file_size_kb
\*   unreadable  UnicodeDecodeError, then the latin-1 read fails too
\*   ioerror   read_text raises an OSError (not a UnicodeDecodeError)
RepoFiles ==
    << [path |-> "a.py",   kind |-> "text",       lines |-> <<"aaaa", "bb", "cccc">>],
       [path |-> "big.py", kind |-> "oversize",   lines |-> <<"xxxxxxxxxxxx">>],
       [path |-> "bad.py", kind |-> "ioerror",    lines |-> <<"zz">>],
       [path |-> "b.py",   kind |-> "latin1",     lines |-> <<"dd">>],
       [path |-> "u.py",   kind |-> "unreadable", lines |-> <<"yy">>] >>

\* ------------------------------------------------------------------ chunker
\* _get_overlap_lines: whole lines from the end while the sum of len+1 stays
\* within target_overlap.
RECURSIVE OverlapLoop(_, _, _, _)
OverlapLoop(lines, j, acc, size) ==
    IF j = 0 THEN acc
    ELSE LET ls == Len(lines[j]) + 1
         IN  IF size + ls > ChunkOverlap THEN acc
             ELSE OverlapLoop(lines, j - 1, <<lines[j]>> \o acc, size + ls)

GetOverlapLinesFromHead(lines) ==
    SubSeq(lines, 1, Len(OverlapLoop(lines, Len(lines), <<>>, 0)))

GetOverlapLinesNone(lines) == <<>>

GetOverlapLinesLastLine(lines) ==
    IF lines = <<>> THEN <<>> ELSE <<lines[Len(lines)]>>

GetOverlapLines(lines) == OverlapLoop(lines, Len(lines), <<>>, 0)

\* f"{repo_url}:{file_path}:{chunk_index}"
ChunkIdStamped(u, path, idx) == <<u, path, idx, now>>

ChunkId(u, path, idx) == <<u, path, idx>>

MkChunk(u, path, idx, content, startLine, endLine) ==
    [id |-> ChunkId(u, path, idx), content |-> content, file_path |-> path,
     chunk_index |-> idx, start_line |-> startLine, end_line |-> endLine,
     repo_url |-> u]

\* The for loop of _chunk_content over enumerate(lines); i is 0-based as in
\* the code, c = [cur, start, size, idx, chunks].
RECURSIVE ChunkLoop(_, _, _, _, _)
ChunkLoop(u, path, lines, i, c) ==
    IF i = Len(lines)
    THEN IF c.cur # <<>>
         THEN Append(c.chunks,
                     MkChunk(u, path, c.idx, c.cur, c.start + 1, Len(lines)))
         ELSE c.chunks
    ELSE LET line == lines[i + 1]
             lineSize == Len(line) + 1
             close == c.size + lineSize > ChunkSize /\ c.cur # <<>>
             ov == GetOverlapLines(c.cur)
             c1 == IF close
                   THEN [cur |-> ov, start |-> i - Len(ov), size |-> SumLen(ov),
                         idx |-> c.idx + 1,
                         chunks |-> Append(c.chunks,
                                MkChunk(u, path, c.idx, c.cur, c.start + 1, i))]
                   ELSE c
         IN  ChunkLoop(u, path, lines, i + 1,
                       [c1 EXCEPT !.cur = Append(c1.cur, line),
                                  !.size = c1.size + lineSize])

ChunkContent(u, path, lines) ==
    ChunkLoop(u, path, lines, 0,
              [cur |-> <<>>, start |-> 0, size |-> 0, idx |-> 0, chunks |-> <<>>])

\* ------------------------------------------------------------- file reading
\* content.strip() == "": every line is whitespace.
IsBlank(lines) == \A i \in 1..Len(lines) : lines[i] \in {"", " ", "  "}

\* RepoService.get_file_content: the decoded lines; "" when both decodings
\* fail; raises (raised = TRUE) when read_text fails otherwise.
GetFileContent(f) ==
    CASE f.kind \in {"text", "latin1"} -> [raised |-> FALSE, lines |-> f.lines]
      [] f.kind = "unreadable"         -> [raised |-> FALSE, lines |-> <<"">>]
      [] OTHER                         -> [raised |-> TRUE,  lines |-> <<>>]

\* IndexingService._process_file
ProcessFile(f, u) ==
    IF f.kind = "oversize" THEN [raised |-> FALSE, chunks |-> <<>>]
    ELSE LET r == GetFileContent(f)
         IN  IF r.raised THEN [raised |-> TRUE, chunks |-> <<>>]
             ELSE IF IsBlank(r.lines) THEN [raised |-> FALSE, chunks |-> <<>>]
             ELSE [raised |-> FALSE, chunks |-> ChunkContent(u, f.path, r.lines)]

\* ------------------------------------------------------- embedding service
\* The model behind LocalEmbeddingProvider: a fixed function of the text.
ProviderEmbed(text) == <<SumLen(text), Len(text)>>

\* _get_cache_key: md5 of the text, taken as collision free.
EmbCacheKey(text) == <<"md5", text>>

\* The indices embed_many finds uncached, in input order (first loop).
RECURSIVE UncachedIdx(_, _, _)
UncachedIdx(texts, cache, i) ==
    IF i > Len(texts) THEN <<>>
    ELSE IF EmbCacheKey(texts[i]) \in DOMAIN cache
         THEN UncachedIdx(texts, cache, i + 1)
         ELSE <<i>> \o UncachedIdx(texts, cache, i + 1)

\* The sub-batch loop of embed_many: sub-batch number k (from 1) holds the
\* next EmbBatchSize uncached texts; the provider raises on sub-batch failAt
\* (0: never).  sent collects the sub-batches handed to the provider.
RECURSIVE EmbedBatches(_, _, _, _, _, _)
EmbedBatches(idxs, texts, cache, k, failAt, sent) ==
    IF idxs = <<>> THEN [ok |-> TRUE, cache |-> cache, sent |-> sent]
    ELSE LET n == Min(EmbBatchSize, Len(idxs))
             batch == [j \in 1..n |-> texts[idxs[j]]]
             fresh == [key \in {EmbCacheKey(batch[j]) : j \in 1..n} |->
                         ProviderEmbed(key[2])]
         IN  IF k = failAt
             THEN [ok |-> FALSE, cache |-> cache, sent |-> Append(sent, batch)]
             ELSE EmbedBatches(SubSeq(idxs, n + 1, Len(idxs)), texts,
                               fresh @@ cache, k + 1, failAt, Append(sent, batch))

\* The (index, vector) pairs the first loop of embed_many appends for the
\* cache hits, in input order.
RECURSIVE HitResults(_, _, _)
HitResults(texts, cache, i) ==
    IF i > Len(texts) THEN <<>>
    ELSE IF EmbCacheKey(texts[i]) \in DOMAIN cache
         THEN <<<<i, cache[EmbCacheKey(texts[i])]>>>> \o HitResults(texts, cache, i + 1)
         ELSE HitResults(texts, cache, i + 1)

\* The pairs the sub-batch loop appends: zip(batch_indices, embeddings),
\* sub-batch after sub-batch, that is in the order of the uncached indices.
MissResults(idxs, texts) ==
    [j \in 1..Len(idxs) |-> <<idxs[j], ProviderEmbed(texts[idxs[j]])>>]

\* results.sort(key=lambda x: x[0]): a stable sort on the index.
RECURSIVE InsertByIndex(_, _)
InsertByIndex(sorted, p) ==
    IF sorted = <<>> THEN <<p>>
    ELSE IF Head(sorted)[1] <= p[1]
         THEN <<Head(sorted)>> \o InsertByIndex(Tail(sorted), p)
         ELSE <<p>> \o sorted

RECURSIVE SortByIndex(_)
SortByIndex(results) ==
    IF results = <<>> THEN <<>>
    ELSE InsertByIndex(SortByIndex(SubSeq(results, 1, Len(results) - 1)),
                       results[Len(results)])

\* [emb for _, emb in results]
Embeddings(results) == [j \in 1..Len(results) |-> results[j][2]]

\* The end of embed_many: the results sorted by original index; a hit
\* contributes the vector the cache held when the call began.
EmbedResultUnsorted(texts, cache, r) ==
    [ok |-> r.ok, cache |-> r.cache, sent |-> r.sent,
     vectors |-> IF r.ok
                 THEN Embeddings(HitResults(texts, cache, 1)
                        \o MissResults(UncachedIdx(texts, cache, 1), texts))
                 ELSE <<>>]

EmbedResultRollingBack(texts, cache, r) ==
    [ok |-> r.ok, cache |-> IF r.ok THEN r.cache ELSE cache, sent |-> r.sent,
     vectors |-> IF r.ok
                 THEN Embeddings(SortByIndex(HitResults(texts, cache, 1)
                        \o MissResults(UncachedIdx(texts, cache, 1), texts)))
                 ELSE <<>>]

EmbedResult(texts, cache, r) ==
    [ok |-> r.ok, cache |-> r.cache, sent |-> r.sent,
     vectors |-> IF r.ok
                 THEN Embeddings(SortByIndex(HitResults(texts, cache, 1)
                        \o MissResults(UncachedIdx(texts, cache, 1), texts)))
                 ELSE <<>>]

\* EmbeddingService.embed_many (cache enabled)
EmbedMany(texts, cache, failAt) ==
    EmbedResult(texts, cache,
        EmbedBatches(UncachedIdx(texts, cache, 1), texts, cache, 1, failAt, <<>>))

\* ------------------------------------------------------------ vector store
\* InMemoryBackend._store is a dict, which keeps its keys in the order of
\* their first insertion: a sequence of entries with distinct ids.
\* InMemoryBackend.add: self._store[id] = {...} replaces the value of a key
\* that is present, where it stands, and appends a key that is new.
StoreAddMoving(st, item) ==
    Append(SelectSeq(st, LAMBDA e : e.id # item.id), item)

StoreAdd(st, item) ==
    IF \E i \in DOMAIN st : st[i].id = item.id
    THEN [i \in DOMAIN st |-> IF st[i].id = item.id THEN item ELSE st[i]]
    ELSE Append(st, item)

\* VectorStore.add_batch -> InMemoryBackend.add_batch: add in order.
RECURSIVE StoreAddBatch(_, _)
StoreAddBatch(st, items) ==
    IF items = <<>> THEN st
    ELSE StoreAddBatch(StoreAdd(st, Head(items)), Tail(items))

\* ChromaBackend.add / add_batch: self.collection.add(ids=..., ...).  The
\* collection's add is an insert, not an upsert: it rejects a call that
\* carries an id twice, and a record whose id is already stored is either
\* left as it is (the record of the call is ignored) or makes the call
\* raise, by the version of the library (on_existing); it never replaces.
ChromaCollectionAdd(st, items, on_existing) ==
    IF Cardinality({items[i].id : i \in 1..Len(items)}) # Len(items)
    THEN [ok |-> FALSE, store |-> st]
    ELSE IF on_existing = "raise"
            /\ \E i \in 1..Len(items), j \in 1..Len(st) : items[i].id = st[j].id
    THEN [ok |-> FALSE, store |-> st]
    ELSE [ok |-> TRUE,
          store |-> st \o SelectSeq(items,
                       LAMBDA it : \A j \in 1..Len(st) : st[j].id # it.id)]

\* VectorStore.delete_by_repo: its body is `pass`.
DeleteByRepo(st, u) == st

\* InMemoryBackend.clear
StoreClear(st) == <<>>

\* The entries of st that belong to repository u.
IdsOfRepo(st, u) ==
    {st[i].id : i \in {j \in DOMAIN st : st[j].metadata.repo_url = u}}

\* sum(x * y for x, y in zip(a, b)): zip stops at the shorter vector.
RECURSIVE DotFrom(_, _, _)
DotFrom(a, b, i) ==
    IF i > Min(Len(a), Len(b)) THEN 0
    ELSE a[i] * b[i] + DotFrom(a, b, i + 1)

Dot(a, b) == DotFrom(a, b, 1)

RECURSIVE Gcd(_, _)
Gcd(m, n) == IF n = 0 THEN m ELSE Gcd(n, m % n)

\* A score is carried exactly, as the fraction num/den (in lowest terms) that
\* equals sign(c) * c * c for the cosine c: the order and the equality of
\* scores are those of the cosines.
MkScore(d, nn) ==
    LET g == Gcd(d * d, nn)
    IN  [num |-> (IF d < 0 THEN 0 - 1 ELSE 1) * ((d * d) \div g),
         den |-> nn \div g]

\* InMemoryBackend._cosine_similarity: 0.0 when a norm is zero, else
\* dot_product / (norm_a * norm_b).
CosineSimilarity(a, b) ==
    IF Dot(a, a) = 0 \/ Dot(b, b) = 0 THEN [num |-> 0, den |-> 1]
    ELSE MkScore(Dot(a, b), Dot(a, a) * Dot(b, b))

ScoreLess(x, y) == x.num * y.den < y.num * x.den

\* The characters of the strings that are searched or searched for.
Chars(str) ==
    CASE str = "s/a"    -> <<"s", "/", "a">>
      [] str = "t/b"    -> <<"t", "/", "b">>
      [] str = "s/c"    -> <<"s", "/", "c">>
      [] str = "s/"     -> <<"s", "/">>
      [] str = "/"      -> <<"/">>
      [] str = "a"      -> <<"a">>
      [] str = "py"     -> <<"p", "y">>
      [] str = "md"     -> <<"m", "d">>
      [] str = "a.py"   -> <<"a", ".", "p", "y">>
      [] str = "b.py"   -> <<"b", ".", "p", "y">>
      [] str = "big.py" -> <<"b", "i", "g", ".", "p", "y">>
      [] str = "bad.py" -> <<"b", "a", "d", ".", "p", "y">>
      [] str = "u.py"   -> <<"u", ".", "p", "y">>
      [] OTHER          -> <<>>

\* `pattern in text` on strings
Contains(pattern, text) ==
    \E i \in 0..(Len(Chars(text)) - Len(Chars(pattern))) :
        SubSeq(Chars(text), i + 1, i + Len(Chars(pattern))) = Chars(pattern)

\* InMemoryBackend._matches_filter: every condition of the filter holds; a
\* filter is the sequence of its (key, condition) items.
MatchesFilter(metadata, filter) ==
    \A i \in 1..Len(filter) :
        /\ filter[i].key \in DOMAIN metadata
        /\ IF filter[i].kind = "contains"
           THEN Contains(filter[i].value, metadata[filter[i].key])
           ELSE metadata[filter[i].key] = filter[i].value

\* The loop of InMemoryBackend.search: the entries passing the filter, in
\* store order, each with its score against the query.
RECURSIVE ScoreEntries(_, _, _, _)
ScoreEntries(st, q, filter, i) ==
    IF i > Len(st) THEN <<>>
    ELSE IF filter # <<>> /\ ~MatchesFilter(st[i].metadata, filter)
         THEN ScoreEntries(st, q, filter, i + 1)
         ELSE <<[id |-> st[i].id, content |-> st[i].content,
                 score |-> CosineSimilarity(q, st[i].embedding),
                 metadata |-> st[i].metadata]>>
              \o ScoreEntries(st, q, filter, i + 1)

\* list.sort(key = score, reverse = True): descending and stable, equal
\* scores keep the order they had.
RECURSIVE InsertByScore(_, _)
InsertByScore(sorted, r) ==
    IF sorted = <<>> THEN <<r>>
    ELSE IF ScoreLess(Head(sorted).score, r.score)
         THEN <<r>> \o sorted
         ELSE <<Head(sorted)>> \o InsertByScore(Tail(sorted), r)

RECURSIVE SortByScore(_)
SortByScore(results) ==
    IF results = <<>> THEN <<>>
    ELSE InsertByScore(SortByScore(SubSeq(results, 1, Len(results) - 1)),
                       results[Len(results)])

\* results[:top_k] for top_k >= 0
Take(results, k) == SubSeq(results, 1, Min(k, Len(results)))

\* InMemoryBackend.search, and VectorStore.search which turns each
\* SearchResult into a dict of the same four fields.
SearchFilterLate(st, q, top_k, filter) ==
    SelectSeq(Take(SortByScore(ScoreEntries(st, q, <<>>, 1)), top_k),
              LAMBDA r : MatchesFilter(r.metadata, filter))

Search(st, q, top_k, filter) ==
    Take(SortByScore(ScoreEntries(st, q, filter, 1)), top_k)

\* ------------------------------------------------------------- search tool
\* SearchTool.score_threshold = 0.5 as a score: sign(c) * c * c = 1/4.
ScoreThreshold == [num |-> 1, den |-> 4]

\* The dict _process_results builds of a raw result that passes.
FormatHit(r) ==
    [file_path |-> IF "file_path" \in DOMAIN r.metadata
                   THEN r.metadata.file_path ELSE "Unknown",
     content |-> r.content,
     score |-> r.score,
     chunk_index |-> IF "chunk_index" \in DOMAIN r.metadata
                     THEN r.metadata.chunk_index ELSE 0,
     language |-> IF "language" \in DOMAIN r.metadata
                  THEN r.metadata.language ELSE ""]

\* The loop of _process_results: a raw result is dropped when its score is
\* below the threshold.
RECURSIVE KeepAboveStrict(_, _)
KeepAboveStrict(raw, threshold) ==
    IF raw = <<>> THEN <<>>
    ELSE IF ~ScoreLess(threshold, Head(raw).score)
         THEN KeepAboveStrict(Tail(raw), threshold)
         ELSE <<FormatHit(Head(raw))>> \o KeepAboveStrict(Tail(raw), threshold)

RECURSIVE KeepAbove(_, _)
KeepAbove(raw, threshold) ==
    IF raw = <<>> THEN <<>>
    ELSE IF ScoreLess(Head(raw).score, threshold)
         THEN KeepAbove(Tail(raw), threshold)
         ELSE <<FormatHit(Head(raw))>> \o KeepAbove(Tail(raw), threshold)

\* SearchTool._process_results: filter by threshold, then sort by score.
ProcessResults(raw) == SortByScore(KeepAbove(raw, ScoreThreshold))

\* --------------------------------------------------------- indexing service
\* What a flush can meet: 0 nothing, k >= 1 the provider raises on the k-th
\* sub-batch of embed_many (here the first), -1 the vector store raises in
\* add_batch.
FlushOutcomes == {-1, 0, 1}
FlushSlots ==
    1..(Cardinality({i \in 1..Len(RepoFiles) :
                        RepoFiles[i].kind \in {"text", "latin1"}}) + 1)

\* The items _index_batch builds from the chunks and their embeddings.
BatchItems(chunks, vectors) ==
    [i \in 1..Len(chunks) |->
        [id |-> chunks[i].id, embedding |-> vectors[i],
         content |-> chunks[i].content,
         metadata |-> [file_path |-> chunks[i].file_path,
                       chunk_index |-> chunks[i].chunk_index,
                       start_line |-> chunks[i].start_line,
                       end_line |-> chunks[i].end_line,
                       repo_url |-> chunks[i].repo_url]]]

StoreBatchUndoing(chunks, st, outcome, e) ==
    IF ~e.ok
    THEN [ok |-> FALSE, cause |-> "embed", store |-> <<>>, cache |-> e.cache,
          embedCalls |-> 1, storeCalls |-> 0, written |-> <<>>]
    ELSE IF outcome = -1
    THEN [ok |-> FALSE, cause |-> "store", store |-> <<>>, cache |-> e.cache,
          embedCalls |-> 1, storeCalls |-> 1, written |-> <<>>]
    ELSE [ok |-> TRUE, cause |-> None, cache |-> e.cache,
          store |-> StoreAddBatch(st, BatchItems(chunks, e.vectors)),
          embedCalls |-> 1, storeCalls |-> 1,
          written |-> BatchItems(chunks, e.vectors)]

\* _index_batch after embed_many returned or raised (e): add_batch, which
\* is taken to store nothing when it raises; written is what it handed to
\* the store.
StoreBatch(chunks, st, outcome, e) ==
    IF ~e.ok
    THEN [ok |-> FALSE, cause |-> "embed", store |-> st, cache |-> e.cache,
          embedCalls |-> 1, storeCalls |-> 0, written |-> <<>>]
    ELSE IF outcome = -1
    THEN [ok |-> FALSE, cause |-> "store", store |-> st, cache |-> e.cache,
          embedCalls |-> 1, storeCalls |-> 1, written |-> <<>>]
    ELSE [ok |-> TRUE, cause |-> None, cache |-> e.cache,
          store |-> StoreAddBatch(st, BatchItems(chunks, e.vectors)),
          embedCalls |-> 1, storeCalls |-> 1,
          written |-> BatchItems(chunks, e.vectors)]

\* IndexingService._index_batch on a non-empty batch: embed_many, add_batch.
IndexBatch(chunks, st, cache, outcome) ==
    StoreBatch(chunks, st, outcome,
        EmbedMany([i \in 1..Len(chunks) |-> chunks[i].content], cache,
                  IF outcome > 0 THEN outcome ELSE 0))

\* The locals of index_repository (batch, indexed, skipped, total, errors),
\* the store and cache as written so far, and the log of the flushes made:
\* [at |-> index of the file being processed, n |-> batch length, ok,
\* items |-> the items stored].
LoopStart(st, cache) ==
    [batch |-> <<>>, indexed |-> 0, skipped |-> 0, total |-> 0,
     errors |-> <<>>, store |-> st, cache |-> cache, log |-> <<>>,
     embedCalls |-> 0, storeCalls |-> 0]

\* After the in-loop flush r of file f: `chunks_batch = []` when it returned,
\* the per-file except (errors.append, skipped_files += 1) when it raised.
AfterFlush(f, i, s, r) ==
    [s EXCEPT !.store = r.store, !.cache = r.cache,
              !.log = Append(@, [at |-> i, n |-> Len(s.batch), ok |-> r.ok,
                                 items |-> r.written]),
              !.embedCalls = @ + r.embedCalls,
              !.storeCalls = @ + r.storeCalls,
              !.batch = IF r.ok THEN <<>> ELSE @,
              !.errors = IF r.ok THEN @ ELSE Append(@, <<f.path, r.cause>>),
              !.skipped = IF r.ok THEN @ ELSE @ + 1]

\* `if len(chunks_batch) >= self.config.batch_size: await self._index_batch`
FlushIfFull(f, i, s, fo) ==
    IF Len(s.batch) >= BatchSize
    THEN AfterFlush(f, i, s,
             IndexBatch(s.batch, s.store, s.cache, fo[Len(s.log) + 1]))
    ELSE s

\* One iteration of `for file_path in files`, p the outcome of _process_file.
FileBody(f, i, s, fo, p) ==
    IF p.raised
    THEN [s EXCEPT !.errors = Append(@, <<f.path, "read">>), !.skipped = @ + 1]
    ELSE IF p.chunks = <<>>
    THEN [s EXCEPT !.skipped = @ + 1]
    ELSE FlushIfFull(f, i,
             [s EXCEPT !.batch = @ \o p.chunks, !.indexed = @ + 1,
                       !.total = @ + Len(p.chunks)], fo)

\* The loop `for file_path in files` of index_repository with its inner
\* try/except.
RECURSIVE FileLoop(_, _, _, _, _)
FileLoop(files, u, i, s, fo) ==
    IF i > Len(files) THEN s
    ELSE FileLoop(files, u, i + 1,
             FileBody(files[i], i, s, fo, ProcessFile(files[i], u)), fo)

\* The IndexingResult: the counts when nothing raised out of the try block,
\* zeros and the cause from the outer except otherwise.
IndexResult(files, s, r, flushed) ==
    [success |-> r.ok,
     total_files |-> IF r.ok THEN Len(files) ELSE 0,
     indexed_files |-> IF r.ok THEN s.indexed ELSE 0,
     skipped_files |-> IF r.ok THEN s.skipped ELSE 0,
     total_chunks |-> IF r.ok THEN s.total ELSE 0,
     errors |-> IF r.ok THEN s.errors ELSE <<<<"run", r.cause>>>>,
     store |-> r.store, cache |-> r.cache,
     log |-> IF flushed
             THEN Append(s.log, [at |-> Len(files) + 1, n |-> Len(s.batch),
                                 ok |-> r.ok, items |-> r.written])
             ELSE s.log,
     embedCalls |-> s.embedCalls + r.embedCalls,
     storeCalls |-> s.storeCalls + r.storeCalls]

\* `if chunks_batch: await self._index_batch(chunks_batch)` after the loop.
FinalFlush(files, s, fo) ==
    IF s.batch # <<>>
    THEN IndexResult(files, s,
             IndexBatch(s.batch, s.store, s.cache, fo[Len(s.log) + 1]), TRUE)
    ELSE IndexResult(files, s,
             [ok |-> TRUE, cause |-> None, store |-> s.store,
              cache |-> s.cache, embedCalls |-> 0, storeCalls |-> 0,
              written |-> <<>>], FALSE)

\* index_repository from _collect_files to its return.
IndexFiles(files, u, st, cache, fo) ==
    FinalFlush(files, FileLoop(files, u, 1, LoopStart(st, cache), fo), fo)

\* ------------------------------------------------------- repository service
Tasks == {"t1", "t2"}

\* _get_local_path: storage_path / f"{owner}_{name}_{md5(url)[:8]}"
GetLocalPath(info) ==
    IF info.url = "https://github.com/o/a" THEN "repos/o_a_1f2e3d4c" ELSE None

\* No entry under a key of _repo_cache.
NoEntry == [url |-> None, local_path |-> None, cloned_at |-> NoTime]

\* No forced run of a url recorded yet.
NoRun == [ids |-> {}, total |-> 0 - 1]

\* _is_cache_valid
IsCacheValidInclusive(entry) ==
    IF entry.cloned_at = NoTime THEN FALSE ELSE now - entry.cloned_at <= CacheTtl

IsCacheValid(entry) ==
    IF entry.cloned_at = NoTime THEN FALSE ELSE now - entry.cloned_at < CacheTtl

\* The cache check of clone: the entry exists, its local_path exists on disk
\* and the entry is within its ttl.
CacheHit(key, force) ==
    /\ ~force
    /\ repoCache[key] # NoEntry
    /\ repoCache[key].local_path # None
    /\ disk[key] # "absent"
    /\ IsCacheValid(repoCache[key])

\* RepoService.list_files on a directory in state d: everything of a complete
\* checkout, nothing of a missing directory, and of a directory a fetch is
\* still writing (or left behind) the files written so far.
Listings(d) ==
    CASE d = "complete" -> {RepoFiles}
      [] d = "absent"   -> {<<>>}
      [] OTHER          -> {SubSeq(RepoFiles, 1, n) : n \in 0..Len(RepoFiles)}

Fetching(t, key) ==
    /\ task[t].pc = "fetching"
    /\ GetCacheKey(ParseGithubUrl(task[t].url)) = key

Idle == [pc |-> "idle", op |-> None, url |-> None, force |-> FALSE, clob |-> FALSE]

\* shutil.rmtree of key's directory: every fetch writing there is clobbered.
Clobber(tk, key, except) ==
    [t \in Tasks |-> IF t # except /\ tk[t].pc = "fetching"
                        /\ GetCacheKey(ParseGithubUrl(tk[t].url)) = key
                     THEN [tk[t] EXCEPT !.clob = TRUE] ELSE tk[t]]

\* The shape of every result.  ret holds the result of the call that has
\* just returned until its caller has taken it (Deliver); NoRet otherwise.
NoRet ==
    [op |-> None, url |-> None, force |-> FALSE,
     success |-> FALSE, total_files |-> 0, indexed_files |-> 0,
     skipped_files |-> 0, total_chunks |-> 0, errors |-> <<>>,
     hit |-> FALSE, cloneCalls |-> 0, fetches |-> 0, embedCalls |-> 0,
     storeCalls |-> 0, log |-> <<>>, dir |-> None, rerun |-> FALSE,
     texts |-> <<>>, vectors |-> <<>>, sent |-> <<>>,
     q |-> <<>>, top_k |-> 0, filter |-> <<>>, raw |-> <<>>, hits |-> <<>>,
     indexed |-> FALSE, items |-> <<>>]

Result(op, u, force) == [NoRet EXCEPT !.op = op, !.url = u, !.force = force]

Ready == ret = NoRet

\* _clone_repo up to its first suspension: remove the target directory and
\* start git clone; the task waits for the subprocess.
StartFetch(t, op, u, force, key) ==
    /\ disk' = [disk EXCEPT ![key] = "absent"]
    /\ task' = [Clobber(task, key, t) EXCEPT
                   ![t] = [pc |-> "fetching", op |-> op, url |-> u,
                           force |-> force, clob |-> FALSE]]
    /\ UNCHANGED <<now, repoCache, indexedRepos, store, embCache, ret,
                   okSince, prevRun>>

\* The guard of the fast path: `not force and repo_url in self._indexed_repos`.
AlreadyIndexedIgnored(u, force) == FALSE

AlreadyIndexed(u, force) == ~force /\ u \in indexedRepos

\* `self._indexed_repos[repo_url] = datetime.now()`, reached only when no
\* flush raised out of the try block.
MarkIndexedAlways(ix, u, success) == ix \cup {u}

MarkIndexed(ix, u, success) == IF success THEN ix \cup {u} ELSE ix

\* The effect of a run with outcome r on the service and its caller.
ApplyIndex(u, force, d, fetches, hit, r) ==
    /\ store' = r.store
    /\ embCache' = r.cache
    /\ indexedRepos' = MarkIndexed(indexedRepos, u, r.success)
    /\ ret' = [Result("index", u, force) EXCEPT
                  !.success = r.success, !.total_files = r.total_files,
                  !.indexed_files = r.indexed_files,
                  !.skipped_files = r.skipped_files,
                  !.total_chunks = r.total_chunks, !.errors = r.errors,
                  !.hit = hit, !.cloneCalls = 1, !.fetches = fetches,
                  !.embedCalls = r.embedCalls,
                  !.storeCalls = r.storeCalls, !.log = r.log, !.dir = d,
                  !.rerun = prevRun[u] # NoRun]
    /\ okSince' = IF r.success THEN okSince \cup {u} ELSE okSince
    /\ prevRun' = IF r.success /\ force /\ d = "complete"
                   THEN [prevRun EXCEPT ![u] =
                           [ids |-> IdsOfRepo(r.store, u),
                            total |-> r.total_chunks]]
                   ELSE prevRun

\* index_repository from _collect_files on, on a directory in state d, with
\* the flushes meeting the outcomes fo.
FinishIndex(u, force, d, fetches, hit, oracles) ==
    \E files \in Listings(d), fo \in oracles :
        ApplyIndex(u, force, d, fetches, hit,
                   IndexFiles(files, u, store, embCache, fo))

\* RepoService.clone called by a client.
Clone(t, u, force) ==
    /\ Ready
    /\ task[t].pc = "idle"
    /\ LET info == ParseGithubUrl(u)
       IN  IF info = Invalid
           THEN /\ ret' = [Result("clone", u, force) EXCEPT
                             !.errors = <<<<"clone", "invalid">>>>,
                             !.cloneCalls = 1]
                /\ UNCHANGED <<now, disk, repoCache, indexedRepos, store,
                               embCache, task, okSince, prevRun>>
           ELSE LET key == GetCacheKey(info)
                IN  IF CacheHit(key, force)
                    THEN /\ ret' = [Result("clone", u, force) EXCEPT
                                      !.success = TRUE, !.hit = TRUE,
                                      !.cloneCalls = 1, !.dir = disk[key]]
                         /\ UNCHANGED <<now, disk, repoCache, indexedRepos,
                                        store, embCache, task, okSince, prevRun>>
                    ELSE StartFetch(t, "clone", u, force, key)

\* References that are not GitHub URLs: a directory by its absolute path and
\* by a path relative to the working directory, a path that does not exist,
\* and a regular file.
LocalRefs == {"/w/proj", "proj", "/w/nope", "/w/notes.txt"}

\* os.path.abspath with the working directory /w.
AbsPath(ref) == IF ref = "proj" THEN "/w/proj" ELSE ref

PathExists(p) == p \in {"/w/proj", "/w/notes.txt"}

IsDir(p) == p = "/w/proj"

\* is_github_url: the reference starts as a GitHub URL does.
IsGithubUrl(ref) == ref \in GoodUrls

\* The local branch of resolve_path: the directory, or the rejection.
ResolveLocalUnchecked(ref) == [ok |-> TRUE, dir |-> AbsPath(ref)]

ResolveLocal(ref) ==
    IF PathExists(AbsPath(ref)) /\ IsDir(AbsPath(ref))
    THEN [ok |-> TRUE, dir |-> AbsPath(ref)]
    ELSE [ok |-> FALSE, dir |-> None]

\* RepoService.resolve_path called by a client: a GitHub URL goes to clone,
\* anything else is taken as a local path.
ResolvePath(t, ref) ==
    IF IsGithubUrl(ref)
    THEN Clone(t, ref, FALSE)
    ELSE /\ Ready
         /\ ret' = [Result("resolve", ref, FALSE) EXCEPT
                       !.success = ResolveLocal(ref).ok,
                       !.dir = ResolveLocal(ref).dir,
                       !.errors = IF ResolveLocal(ref).ok THEN <<>>
                                  ELSE <<<<"resolve", "invalid">>>>]
         /\ UNCHANGED <<now, disk, repoCache, indexedRepos, store, embCache,
                        task, okSince, prevRun>>

\* IndexingService.index_repository called by a client.
IndexRepository(t, u, force, oracles) ==
    /\ Ready
    /\ task[t].pc = "idle"
    /\ IF AlreadyIndexed(u, force)
       THEN /\ ret' = [Result("index", u, force) EXCEPT
                         !.success = TRUE,
                         !.errors = <<<<"run", "already indexed">>>>]
            /\ okSince' = okSince \cup {u}
            /\ UNCHANGED <<now, disk, repoCache, indexedRepos, store,
                           embCache, task, prevRun>>
       ELSE LET info == ParseGithubUrl(u)
            IN  IF info = Invalid
                THEN /\ ret' = [Result("index", u, force) EXCEPT
                                  !.errors = <<<<"run", "invalid">>>>,
                                  !.cloneCalls = 1]
                     /\ UNCHANGED <<now, disk, repoCache, indexedRepos, store,
                                    embCache, task, okSince, prevRun>>
                ELSE LET key == GetCacheKey(info)
                     IN  IF CacheHit(key, FALSE)
                         THEN /\ FinishIndex(u, force, disk[key], 0, TRUE, oracles)
                              /\ UNCHANGED <<now, disk, repoCache, task>>
                         ELSE StartFetch(t, "index", u, force, key)

\* The git subprocess creates the target directory and starts writing.
FetchProgress(t) ==
    /\ Ready
    /\ task[t].pc = "fetching"
    /\ LET key == GetCacheKey(ParseGithubUrl(task[t].url))
       IN  /\ disk[key] = "absent"
           /\ disk' = [disk EXCEPT ![key] = "partial"]
    /\ UNCHANGED <<now, repoCache, indexedRepos, store, embCache, task, ret,
                   okSince, prevRun>>

\* The subprocess times out or exits non-zero: _clone_repo raises, clone
\* raises; index_repository's outer except turns it into a failed result.
FetchFail(t, cause) ==
    /\ Ready
    /\ task[t].pc = "fetching"
    /\ task' = [task EXCEPT ![t] = Idle]
    /\ ret' = [Result(task[t].op, task[t].url, task[t].force) EXCEPT
                  !.errors = <<<<IF task[t].op = "index" THEN "run" ELSE "clone",
                                 cause>>>>,
                  !.cloneCalls = 1, !.fetches = 1]
    /\ UNCHANGED <<now, disk, repoCache, indexedRepos, store, embCache,
                   okSince, prevRun>>

\* The subprocess exits 0: clone caches the RepoInfo with cloned_at = now and
\* returns; index_repository goes on to the end without suspending again.
\* A checkout nobody else touched is complete; one whose directory another
\* call removed or is writing may be in any state.
FetchOk(t, oracles) ==
    /\ Ready
    /\ task[t].pc = "fetching"
    /\ LET u == task[t].url
           info == ParseGithubUrl(u)
           key == GetCacheKey(info)
           shared == task[t].clob \/ \E o \in Tasks \ {t} : Fetching(o, key)
       IN  \E d \in IF shared THEN {disk[key], "partial", "complete"}
                              ELSE {"complete"} :
             /\ disk' = [disk EXCEPT ![key] = d]
             /\ repoCache' = [repoCache EXCEPT ![key] =
                                [url |-> info.url,
                                 local_path |-> GetLocalPath(info),
                                 cloned_at |-> now]]
             /\ task' = [task EXCEPT ![t] = Idle]
             /\ IF task[t].op = "index"
                THEN FinishIndex(u, task[t].force, d, 1, FALSE, oracles)
                ELSE /\ ret' = [Result("clone", u, task[t].force) EXCEPT
                                  !.success = TRUE, !.cloneCalls = 1,
                                  !.fetches = 1, !.dir = d]
                     /\ UNCHANGED <<indexedRepos, store, embCache, okSince,
                                    prevRun>>
    /\ UNCHANGED now

\* IndexingService.is_indexed
IsIndexed(u) == u \in indexedRepos

\* IndexingService.clear_index
ClearIndex(u) ==
    /\ Ready
    /\ IF u \in indexedRepos
       THEN /\ indexedRepos' = indexedRepos \ {u}
            /\ store' = DeleteByRepo(store, u)
            /\ ret' = [Result("clear_index", u, FALSE) EXCEPT !.success = TRUE]
       ELSE /\ ret' = Result("clear_index", u, FALSE)
            /\ UNCHANGED <<indexedRepos, store>>
    /\ okSince' = okSince \ {u}
    /\ UNCHANGED <<now, disk, repoCache, embCache, task, prevRun>>

\* IndexingService.clear_all
ClearAll ==
    /\ Ready
    /\ indexedRepos' = {}
    /\ store' = StoreClear(store)
    /\ ret' = [Result("clear_all", None, FALSE) EXCEPT !.success = TRUE]
    /\ okSince' = {}
    /\ UNCHANGED <<now, disk, repoCache, embCache, task, prevRun>>

\* RepoService.cleanup
Cleanup(u) ==
    /\ Ready
    /\ LET info == ParseGithubUrl(u)
       IN  IF info = Invalid
           THEN /\ ret' = Result("cleanup", u, FALSE)
                /\ UNCHANGED <<disk, repoCache, task>>
           ELSE LET key == GetCacheKey(info)
                IN  /\ ret' = [Result("cleanup", u, FALSE) EXCEPT
                                  !.success = TRUE]
                    /\ IF repoCache[key] # NoEntry
                       THEN /\ repoCache' = [repoCache EXCEPT ![key] = NoEntry]
                            /\ disk' = [disk EXCEPT ![key] = "absent"]
                            /\ task' = IF disk[key] # "absent"
                                        THEN Clobber(task, key, None)
                                        ELSE task
                       ELSE UNCHANGED <<disk, repoCache, task>>
    /\ UNCHANGED <<now, indexedRepos, store, embCache, okSince, prevRun>>

\* RepoService.cleanup_expired
CleanupExpired ==
    LET expired == {k \in Keys : repoCache[k] # NoEntry /\ ~IsCacheValid(repoCache[k])}
    IN  /\ Ready
        /\ repoCache' = [k \in Keys |-> IF k \in expired THEN NoEntry
                                                          ELSE repoCache[k]]
        /\ disk' = [k \in Keys |-> IF k \in expired THEN "absent" ELSE disk[k]]
        /\ task' = [t \in Tasks |->
                      IF task[t].pc = "fetching"
                         /\ GetCacheKey(ParseGithubUrl(task[t].url)) \in expired
                         /\ disk[GetCacheKey(ParseGithubUrl(task[t].url))] # "absent"
                      THEN [task[t] EXCEPT !.clob = TRUE] ELSE task[t]]
        /\ ret' = [Result("cleanup_expired", None, FALSE) EXCEPT
                      !.success = TRUE, !.total_files = Cardinality(expired)]
        /\ UNCHANGED <<now, indexedRepos, store, embCache, okSince, prevRun>>

\* EmbeddingService.embed (cache enabled): the cached vector on a hit, else
\* one provider call whose result is cached.
EmbedOne(text, cache) ==
    IF EmbCacheKey(text) \in DOMAIN cache
    THEN [cache |-> cache, sent |-> <<>>, vector |-> cache[EmbCacheKey(text)]]
    ELSE [cache |-> (EmbCacheKey(text) :> ProviderEmbed(text)) @@ cache,
          sent |-> <<<<text>>>>, vector |-> ProviderEmbed(text)]

\* The texts the clients of the embedding service pass.
TA == <<"aaaa">>
TB == <<"bb">>
TC == <<"cc", "d">>
EmbTexts == {TA, TB, TC}
TextLists == UNION {[1..n -> EmbTexts] : n \in 0..MaxTexts}

\* EmbeddingService.embed called by a client.
Embed(text) ==
    /\ Ready
    /\ embCache' = EmbedOne(text, embCache).cache
    /\ ret' = [Result("embed", None, FALSE) EXCEPT
                  !.success = TRUE, !.texts = <<text>>,
                  !.vectors = <<EmbedOne(text, embCache).vector>>,
                  !.sent = EmbedOne(text, embCache).sent]
    /\ UNCHANGED <<now, disk, repoCache, indexedRepos, store, task, okSince,
                   prevRun>>

\* EmbeddingService.embed_many called by a client; the provider raises on
\* sub-batch failAt (0: never), and then so does the call.
EmbedManyCall(texts, failAt) ==
    /\ Ready
    /\ embCache' = EmbedMany(texts, embCache, failAt).cache
    /\ ret' = [Result("embed_many", None, FALSE) EXCEPT
                  !.success = EmbedMany(texts, embCache, failAt).ok,
                  !.texts = texts,
                  !.vectors = EmbedMany(texts, embCache, failAt).vectors,
                  !.sent = EmbedMany(texts, embCache, failAt).sent]
    /\ UNCHANGED <<now, disk, repoCache, indexedRepos, store, task, okSince,
                   prevRun>>

\* EmbeddingService.clear_cache
ClearCache ==
    /\ Ready
    /\ embCache' = <<>>
    /\ ret' = [Result("clear_cache", None, FALSE) EXCEPT !.success = TRUE]
    /\ UNCHANGED <<now, disk, repoCache, indexedRepos, store, task, okSince,
                   prevRun>>

\* The entries the clients of the vector store add directly: three ids,
\* two versions of each.
MetaA == [file_path |-> "s/a", language |-> "py"]
MetaB == [file_path |-> "t/b", language |-> "py"]
MetaC == [file_path |-> "s/c", language |-> "py"]
MetaNoPath == [language |-> "md"]
SearchItems ==
    { [id |-> "x", embedding |-> <<3, 1>>, content |-> "cx1", metadata |-> MetaA],
      [id |-> "x", embedding |-> <<1, 2, 1, 2>>, content |-> "cx2", metadata |-> MetaA],
      [id |-> "y", embedding |-> <<6, 2>>, content |-> "cy1", metadata |-> MetaB],
      [id |-> "y", embedding |-> <<0, 0>>, content |-> "cy2", metadata |-> MetaB],
      [id |-> "z", embedding |-> <<0 - 3, 0 - 1>>, content |-> "cz1",
       metadata |-> MetaNoPath],
      [id |-> "z", embedding |-> <<1, 1>>, content |-> "cz2", metadata |-> MetaC] }
ItemLists == UNION {[1..n -> SearchItems] : n \in 1..2}

\* The queries and the filters of the searches.
QueryTexts == {TA, TB}
QueryVecs == {ProviderEmbed(t) : t \in QueryTexts}
PathHas(pattern) == [key |-> "file_path", kind |-> "contains", value |-> pattern]
LangIs(lang) == [key |-> "language", kind |-> "eq", value |-> lang]
Filters == {<<>>, <<PathHas("s/")>>, <<LangIs("py")>>,
            <<PathHas("/"), LangIs("py")>>}
NoPattern == ""
Patterns == {"s/", "a"}

\* VectorStore.add called by a client.
Add(item) ==
    /\ Ready
    /\ store' = StoreAdd(store, item)
    /\ ret' = [Result("add", None, FALSE) EXCEPT
                  !.success = TRUE, !.items = <<item>>]
    /\ UNCHANGED <<now, disk, repoCache, indexedRepos, embCache, task, okSince,
                   prevRun>>

\* VectorStore.add_batch called by a client.
AddBatch(items) ==
    /\ Ready
    /\ store' = StoreAddBatch(store, items)
    /\ ret' = [Result("add_batch", None, FALSE) EXCEPT
                  !.success = TRUE, !.items = items]
    /\ UNCHANGED <<now, disk, repoCache, indexedRepos, embCache, task, okSince,
                   prevRun>>

\* VectorStore.add and add_batch called by a client, the store configured
\* with backend = "chroma" (add is add_batch of one item).
ChromaAddBatch(items, on_existing) ==
    /\ Ready
    /\ store' = ChromaCollectionAdd(store, items, on_existing).store
    /\ ret' = [Result(IF Len(items) = 1 THEN "add" ELSE "add_batch", None, FALSE)
                 EXCEPT !.success = ChromaCollectionAdd(store, items, on_existing).ok,
                        !.items = items]
    /\ UNCHANGED <<now, disk, repoCache, indexedRepos, embCache, task, okSince,
                   prevRun>>

\* VectorStore.search called by a client.
StoreSearch(q, top_k, filter) ==
    /\ Ready
    /\ ret' = [Result("search", None, FALSE) EXCEPT
                  !.success = TRUE, !.q = q, !.top_k = top_k,
                  !.filter = filter, !.storeCalls = 1,
                  !.hits = Search(store, q, top_k, filter)]
    /\ UNCHANGED <<now, disk, repoCache, indexedRepos, store, embCache, task,
                   okSince, prevRun>>

\* The body of InMemoryBackend.add, statement by statement: one dict store
\* and no await.
InMemoryAddBodyYielding == <<"suspend", "store_item">>

InMemoryAddBody == <<"store_item">>

\* `await coro()` hands control to the event loop only if the coroutine
\* awaited reaches an await that suspends; otherwise it runs inline.
AwaitSuspends(body) == \E i \in DOMAIN body : body[i] = "suspend"

\* The event loop may run another coroutine: none is inside the loop of
\* add_batch, or the `await self.add(...)` it stands at has suspended it.
LoopMayRunOther(t) ==
    \A o \in Tasks \ {t} :
        task[o].pc = "adding" => AwaitSuspends(InMemoryAddBody)

\* The batches the concurrent writers add.
BatchLists ==
    {items \in [1..2 -> {it \in SearchItems : it.content \in {"cx1", "cy1", "cz2"}}] :
        items[1].id # items[2].id}

\* A task whose coroutine is add_batch(items) is created; it has not run.
ScheduleAddBatch(t, items) ==
    /\ Ready
    /\ task[t].pc = "idle"
    /\ LoopMayRunOther(t)
    /\ task' = [task EXCEPT ![t] =
                   [pc |-> "scheduled", op |-> "add_batch", url |-> None,
                    force |-> FALSE, clob |-> FALSE, items |-> items, i |-> 0]]
    /\ UNCHANGED <<now, disk, repoCache, indexedRepos, store, embCache, ret,
                   okSince, prevRun>>

\* One iteration of the loop of InMemoryBackend.add_batch in task t:
\* `await self.add(id, emb, content, meta)`; after the last the call
\* returns.
AddBatchStep(t) ==
    /\ Ready
    /\ task[t].pc \in {"scheduled", "adding"}
    /\ LoopMayRunOther(t)
    /\ store' = StoreAdd(store, task[t].items[task[t].i + 1])
    /\ IF task[t].i + 1 = Len(task[t].items)
       THEN /\ task' = [task EXCEPT ![t] = Idle]
            /\ ret' = [Result("add_batch", None, FALSE) EXCEPT
                          !.success = TRUE, !.items = task[t].items]
       ELSE /\ task' = [task EXCEPT ![t].pc = "adding", ![t].i = @ + 1]
            /\ UNCHANGED ret
    /\ UNCHANGED <<now, disk, repoCache, indexedRepos, embCache, okSince,
                   prevRun>>

\* InMemoryBackend.search run by the event loop in another task.
ConcurrentSearch(q, top_k, filter) ==
    /\ LoopMayRunOther(None)
    /\ StoreSearch(q, top_k, filter)

\* What a search does once it is past its index check: embed the query,
\* search the store with the filter, post-process.  provider_fails: the
\* model raises if it is asked.
EmbedAndSearch(op, query, top_k, filter, is_indexed, provider_fails) ==
    IF provider_fails /\ EmbedOne(query, embCache).sent # <<>>
    THEN /\ ret' = [Result(op, None, FALSE) EXCEPT
                       !.errors = <<<<"search", "embed">>>>,
                       !.indexed = is_indexed,
                       !.texts = <<query>>, !.top_k = top_k,
                       !.filter = filter, !.embedCalls = 1]
         /\ UNCHANGED embCache
    ELSE /\ embCache' = EmbedOne(query, embCache).cache
         /\ ret' = [Result(op, None, FALSE) EXCEPT
                       !.success = TRUE, !.indexed = is_indexed,
                       !.texts = <<query>>, !.top_k = top_k,
                       !.filter = filter,
                       !.q = EmbedOne(query, embCache).vector,
                       !.embedCalls = 1, !.storeCalls = 1,
                       !.raw = Search(store, EmbedOne(query, embCache).vector,
                                      top_k, filter),
                       !.hits = ProcessResults(
                                  Search(store, EmbedOne(query, embCache).vector,
                                         top_k, filter))]

\* SearchTool.execute on a context whose is_indexed flag is is_indexed.
ToolExecute(query, top_k, is_indexed, provider_fails) ==
    /\ Ready
    /\ IF ~is_indexed
       THEN /\ ret' = [Result("execute", None, FALSE) EXCEPT
                          !.errors = <<<<"search", "not indexed">>>>,
                          !.texts = <<query>>, !.top_k = top_k]
            /\ UNCHANGED embCache
       ELSE EmbedAndSearch("execute", query, top_k, <<>>, TRUE,
                           provider_fails)
    /\ UNCHANGED <<now, disk, repoCache, indexedRepos, store, task, okSince,
                   prevRun>>

\* SearchTool.search_by_file_pattern on a context whose is_indexed flag is
\* is_indexed; the method does not read the flag.
ToolSearchByFilePattern(pattern, query, is_indexed, provider_fails) ==
    /\ Ready
    /\ EmbedAndSearch("search_by_file_pattern", query, DefaultTopK * 2,
                      <<PathHas(pattern)>>, is_indexed, provider_fails)
    /\ UNCHANGED <<now, disk, repoCache, indexedRepos, store, task, okSince,
                   prevRun>>

\* The SearchResult search_code builds of a raw result.
FormatSearchResult(r) ==
    [file_path |-> IF "file_path" \in DOMAIN r.metadata
                   THEN r.metadata.file_path ELSE "",
     content |-> r.content,
     score |-> r.score,
     chunk_index |-> IF "chunk_index" \in DOMAIN r.metadata
                     THEN r.metadata.chunk_index ELSE 0,
     language |-> IF "language" \in DOMAIN r.metadata
                  THEN r.metadata.language ELSE "",
     start_line |-> IF "start_line" \in DOMAIN r.metadata
                    THEN r.metadata.start_line ELSE 0,
     end_line |-> IF "end_line" \in DOMAIN r.metadata
                  THEN r.metadata.end_line ELSE 0]

\* The results of search_code: the raw results whose file_path contains the
\* pattern (all of them when there is no pattern), converted.
SearchCodeResults(raw, pattern) ==
    LET kept == IF pattern = NoPattern THEN raw
                ELSE SelectSeq(raw, LAMBDA r :
                        Contains(pattern, FormatSearchResult(r).file_path))
    IN  [i \in 1..Len(kept) |-> FormatSearchResult(kept[i])]

\* The route search_code: the index check on the IndexingService, then
\* embed, search without a filter, filter by file pattern.  A raising
\* provider is not caught here.
SearchCode(u, query, top_k, pattern, provider_fails) ==
    /\ Ready
    /\ IF ~IsIndexed(u)
       THEN /\ ret' = [Result("search_code", u, FALSE) EXCEPT
                          !.errors = <<<<"search", "not indexed">>>>,
                          !.texts = <<query>>, !.top_k = top_k]
            /\ UNCHANGED embCache
       ELSE IF provider_fails /\ EmbedOne(query, embCache).sent # <<>>
       THEN /\ ret' = [Result("search_code", u, FALSE) EXCEPT
                          !.errors = <<<<"search", "raised">>>>,
                          !.indexed = TRUE, !.texts = <<query>>,
                          !.top_k = top_k, !.embedCalls = 1]
            /\ UNCHANGED embCache
       ELSE /\ embCache' = EmbedOne(query, embCache).cache
            /\ ret' = [Result("search_code", u, FALSE) EXCEPT
                          !.success = TRUE, !.indexed = TRUE,
                          !.texts = <<query>>, !.top_k = top_k,
                          !.q = EmbedOne(query, embCache).vector,
                          !.embedCalls = 1, !.storeCalls = 1,
                          !.raw = Search(store, EmbedOne(query, embCache).vector,
                                         top_k, <<>>),
                          !.hits = SearchCodeResults(
                                     Search(store, EmbedOne(query, embCache).vector,
                                            top_k, <<>>), pattern)]
    /\ UNCHANGED <<now, disk, repoCache, indexedRepos, store, task, okSince,
                   prevRun>>

\* Files of a checkout: of two chunks, of one chunk, and of more chunks
\* than a batch holds.
CheckoutFiles ==
    {[path |-> "a.py", kind |-> "text", lines |-> <<"aaaa", "bb", "cccc">>],
     [path |-> "b.py", kind |-> "text", lines |-> <<"dd">>],
     [path |-> "c.py", kind |-> "text", lines |-> <<"aaaa", "cccc", "eeee">>]}

Checkouts == UNION {[1..n -> CheckoutFiles] : n \in 1..MaxFiles}

\* index_repository(UA, force = True) whose clone returned a checkout of the
\* given files, every flush succeeding.
IndexCheckout(files) ==
    /\ Ready
    /\ ApplyIndex(UA, TRUE, "complete", 1, FALSE,
                  IndexFiles(files, UA, store, embCache,
                             [i \in 1..(MaxFiles + 1) |-> 0]))
    /\ UNCHANGED <<now, disk, repoCache, task>>

\* The lines of the contents handed to the chunker: empty, short, of half
\* a chunk, of a whole chunk, and longer than a chunk.
ChunkLines == {"", "a", "bbb", "ccccccc", "dddddddddd"}
Contents == UNION {[1..n -> ChunkLines] : n \in 1..MaxLines}

\* IndexingService._chunk_content called on a content of the given lines.
Chunk(lines) ==
    /\ Ready
    /\ ret' = [Result("chunk", UA, FALSE) EXCEPT
                  !.success = TRUE, !.texts = lines,
                  !.items = ChunkContent(UA, "a.py", lines)]
    /\ UNCHANGED <<now, disk, repoCache, indexedRepos, store, embCache, task,
                   okSince, prevRun>>

\* The caller takes the result.
Deliver ==
    /\ ~Ready
    /\ ret' = NoRet
    /\ UNCHANGED <<now, disk, repoCache, indexedRepos, store, embCache, task,
                   okSince, prevRun>>

\* Time passes.
Tick ==
    /\ Ready
    /\ now < MaxTime
    /\ now' = now + 1
    /\ UNCHANGED <<disk, repoCache, indexedRepos, store, embCache, task, ret,
                   okSince, prevRun>>

Init ==
    /\ now = 0
    /\ disk = [k \in Keys |-> "absent"]
    /\ repoCache = [k \in Keys |-> NoEntry]
    /\ indexedRepos = {}
    /\ store = <<>>
    /\ embCache = <<>>
    /\ task = [t \in Tasks |-> Idle]
    /\ ret = NoRet
    /\ okSince = {}
    /\ prevRun = [u \in GoodUrls |-> NoRun]

AllOracles == {f \in [FlushSlots -> FlushOutcomes] : TRUE}

\* The indexing pipeline, one client at a time.
Next ==
    \/ \E u \in Urls, force \in BOOLEAN :
          IndexRepository("t1", u, force, AllOracles)
    \/ FetchProgress("t1")
    \/ \E cause \in {"timeout", "exit"} : FetchFail("t1", cause)
    \/ FetchOk("t1", AllOracles)
    \/ \E u \in Urls : ClearIndex(u)
    \/ ClearAll
    \/ \E u \in Urls, pattern \in {NoPattern, "a"}, provider_fails \in BOOLEAN :
          SearchCode(u, TA, DefaultTopK, pattern, provider_fails)
    \/ \E is_indexed \in BOOLEAN, provider_fails \in BOOLEAN :
          ToolExecute(TA, DefaultTopK, is_indexed, provider_fails)
    \/ \E is_indexed \in BOOLEAN, provider_fails \in BOOLEAN :
          ToolSearchByFilePattern("a", TA, is_indexed, provider_fails)
    \/ Deliver
    \/ Tick

Spec == Init /\ [][Next]_vars

\* Runs in which no flush raises.
NoFaults == {[i \in FlushSlots |-> 0]}

\* The repository service under two concurrent clients.
NextRepo ==
    \/ \E t \in Tasks, u \in Urls, force \in BOOLEAN : Clone(t, u, force)
    \/ \E t \in Tasks, ref \in LocalRefs \cup Urls : ResolvePath(t, ref)
    \/ \E t \in Tasks : IndexRepository(t, UA, FALSE, NoFaults)
    \/ \E t \in Tasks : FetchProgress(t)
    \/ \E t \in Tasks, cause \in {"timeout", "exit"} : FetchFail(t, cause)
    \/ \E t \in Tasks : FetchOk(t, NoFaults)
    \/ \E u \in Urls : Cleanup(u)
    \/ CleanupExpired
    \/ Deliver
    \/ Tick

SpecRepo == Init /\ [][NextRepo]_vars

\* The embedding service on its own.
NextEmbed ==
    \/ \E text \in EmbTexts : Embed(text)
    \/ \E texts \in TextLists, failAt \in 0..2 : EmbedManyCall(texts, failAt)
    \/ ClearCache
    \/ Deliver

SpecEmbed == Init /\ [][NextEmbed]_vars

\* The vector store and the search tool over entries added directly.
NextSearch ==
    \/ \E item \in SearchItems : Add(item)
    \/ \E items \in ItemLists : AddBatch(items)
    \/ \E q \in QueryVecs, top_k \in 0..MaxTopK, filter \in Filters :
          StoreSearch(q, top_k, filter)
    \/ \E query \in QueryTexts, top_k \in 0..MaxTopK,
          is_indexed \in BOOLEAN, provider_fails \in BOOLEAN :
          ToolExecute(query, top_k, is_indexed, provider_fails)
    \/ \E pattern \in Patterns, query \in QueryTexts,
          is_indexed \in BOOLEAN, provider_fails \in BOOLEAN :
          ToolSearchByFilePattern(pattern, query, is_indexed, provider_fails)
    \/ Deliver

SpecSearch == Init /\ [][NextSearch]_vars

\* The file loop of index_repository over checkouts of every shape.
NextBatch ==
    \/ \E files \in Checkouts : IndexCheckout(files)
    \/ Deliver

SpecBatch == Init /\ [][NextBatch]_vars

\* ------------------------------------------------------- CodeIndexerTool
\* A content is a string of ordinary characters ("x") and newlines ("n").
ToolContents == UNION {[1..n -> {"x", "n"}] : n \in 1..MaxContent}

\* A Python slice bound on a string of length n: negative counts from the
\* end, and the result is clamped to 0..n.
SliceIndex(i, n) ==
    IF i < 0 THEN (IF i + n < 0 THEN 0 ELSE i + n)
    ELSE IF i > n THEN n ELSE i

\* content.rfind("\n", start, end): the highest 0-based position of a
\* newline in content[start:end], -1 when there is none.
RFindNewline(content, start, end) ==
    LET found == {p \in SliceIndex(start, Len(content))
                          ..(SliceIndex(end, Len(content)) - 1) :
                     content[p + 1] = "n"}
    IN  IF found = {} THEN 0 - 1
        ELSE CHOOSE p \in found : \A o \in found : o <= p

\* The end of the chunk that starts at start: start + chunk_size, moved
\* back to just after the last newline of the window when the window ends
\* inside the content and that newline lies after start.
ToolChunkEnd(content, start) ==
    IF start + ToolChunkSize < Len(content)
       /\ RFindNewline(content, start, start + ToolChunkSize) > start
    THEN RFindNewline(content, start, start + ToolChunkSize) + 1
    ELSE start + ToolChunkSize

\* CodeIndexerTool._chunk_content is called on a content by a tool built
\* with the given chunk_overlap: start = 0, chunk_index = 0.
ToolChunkStart(t, content, chunk_overlap) ==
    /\ Ready
    /\ task[t].pc = "idle"
    /\ task' = [task EXCEPT ![t] =
                   [pc |-> "chunking", op |-> "tool_chunk", url |-> None,
                    force |-> FALSE, clob |-> FALSE, content |-> content,
                    chunk_overlap |-> chunk_overlap, start |-> 0,
                    chunk_index |-> 0]]
    /\ UNCHANGED <<now, disk, repoCache, indexedRepos, store, embCache, ret,
                   okSince, prevRun>>

\* One iteration of `while start < len(content)`: a chunk is appended and
\* start = end - self.chunk_overlap.
ToolChunkStep(t) ==
    /\ Ready
    /\ task[t].pc = "chunking"
    /\ task[t].start < Len(task[t].content)
    /\ task[t].chunk_index < MaxToolChunks
    /\ task' = [task EXCEPT
                   ![t].start = ToolChunkEnd(task[t].content, task[t].start)
                                  - task[t].chunk_overlap,
                   ![t].chunk_index = @ + 1]
    /\ UNCHANGED <<now, disk, repoCache, indexedRepos, store, embCache, ret,
                   okSince, prevRun>>

\* The loop condition fails: the chunks are returned.
ToolChunkReturn(t) ==
    /\ Ready
    /\ task[t].pc = "chunking"
    /\ task[t].start >= Len(task[t].content)
    /\ task' = [task EXCEPT ![t] = Idle]
    /\ ret' = [Result("tool_chunk", None, FALSE) EXCEPT
                  !.success = TRUE, !.texts = task[t].content,
                  !.total_chunks = task[t].chunk_index]
    /\ UNCHANGED <<now, disk, repoCache, indexedRepos, store, embCache,
                   okSince, prevRun>>

\* CodeIndexerTool chunking contents of every shape, for every
\* chunk_overlap from 0 to below chunk_size.
NextTool ==
    \/ \E content \in ToolContents, chunk_overlap \in 0..(ToolChunkSize - 1) :
          ToolChunkStart("t1", content, chunk_overlap)
    \/ ToolChunkStep("t1")
    \/ ToolChunkReturn("t1")
    \/ Deliver

SpecTool == Init /\ [][NextTool]_vars

\* The in-memory backend under the event loop: writers and a reader.
NextAsync ==
    \/ \E t \in Tasks, items \in BatchLists : ScheduleAddBatch(t, items)
    \/ \E t \in Tasks : AddBatchStep(t)
    \/ \E q \in QueryVecs : ConcurrentSearch(q, MaxTopK, <<>>)
    \/ Deliver

SpecAsync == Init /\ [][NextAsync]_vars

\* The chunker on its own.
NextChunk ==
    \/ \E lines \in Contents : Chunk(lines)
    \/ Deliver

SpecChunk == Init /\ [][NextChunk]_vars

\* The vector store configured with the Chroma backend, the default.
NextChroma ==
    \/ \E items \in ItemLists, on_existing \in {"ignore", "raise"} :
          ChromaAddBatch(items, on_existing)
    \/ Deliver

SpecChroma == Init /\ [][NextChroma]_vars

\* ================================================================ claims
FailingKinds == {"oversize", "ioerror", "unreadable"}

\* A call returns in this step.
Returns == Ready /\ ret' # NoRet

\* C1: a forced run of u over a complete, unchanged checkout that succeeds,
\* made after an earlier such run, leaves the store with exactly the chunk
\* ids of u it held after the earlier run, reports the same total_chunks,
\* and the store holds one entry per chunk (nothing duplicated).
C1_IdempotentReindex ==
    [][\A u \in GoodUrls :
         (Returns /\ ret'.op = "index" /\ ret'.url = u /\ ret'.force
            /\ ret'.success /\ ret'.dir = "complete" /\ prevRun[u] # NoRun)
         => /\ IdsOfRepo(store', u) = prevRun[u].ids
            /\ ret'.total_chunks = prevRun[u].total
            /\ Cardinality(IdsOfRepo(store', u)) = ret'.total_chunks]_vars

C1_Witness ==
    /\ ret.op = "index" /\ ret.force /\ ret.success /\ ret.dir = "complete"
    /\ ret.rerun
    /\ ret.total_chunks = 3
    /\ Cardinality(IdsOfRepo(store, ret.url)) = 3

\* C2: when clear_index(u) returns true the store holds no chunk of u and
\* every chunk of another repository is as it was.
C2_ClearIndexDeletesChunks ==
    [][(Returns /\ ret'.op = "clear_index" /\ ret'.success)
        => /\ IdsOfRepo(store', ret'.url) = {}
           /\ \A i \in DOMAIN store :
                 store[i].metadata.repo_url # ret'.url
                 => \E j \in DOMAIN store' : store'[j] = store[i]]_vars

\* C3: a run in which some flush raised returns success = false with the
\* cause in errors, and the raising flush is the last thing the run did.
C3_FlushFailureAborts ==
    (ret.op = "index" /\ \E i \in 1..Len(ret.log) : ~ret.log[i].ok)
    => /\ ~ret.success
       /\ ret.errors # <<>>
       /\ \A i \in 1..Len(ret.log) : ~ret.log[i].ok => i = Len(ret.log)

\* C4: a run over the enumerated files in which no flush raised returns
\* success = true, counts every file that is oversize, unreadable or raises
\* on reading as skipped, and has an errors entry for each of them.
C4_FileFailuresRecorded ==
    (ret.op = "index" /\ ret.dir # None
       /\ \A i \in 1..Len(ret.log) : ret.log[i].ok)
    => LET failing == {i \in 1..ret.total_files :
                          RepoFiles[i].kind \in FailingKinds}
       IN  /\ ret.success
           /\ ret.skipped_files = Cardinality(failing)
           /\ \A i \in failing :
                 \E j \in 1..Len(ret.errors) : ret.errors[j][1] = RepoFiles[i].path

\* C5: index_repository(u, force = False) on an indexed u returns at once
\* with success and zero counts, calls neither clone nor embed_many nor
\* add_batch, starts no fetch, and changes none of the index record, the
\* repository cache, the checkout, the embedding cache and the store.
C5_FastPathNoOp ==
    [][/\ (Returns /\ ret'.op = "index" /\ ~ret'.force /\ ret'.fetches = 0
            /\ ret'.url \in indexedRepos)
          => /\ ret'.success
             /\ ret'.total_files = 0 /\ ret'.indexed_files = 0
             /\ ret'.skipped_files = 0 /\ ret'.total_chunks = 0
             /\ ret'.cloneCalls = 0 /\ ret'.embedCalls = 0
             /\ ret'.storeCalls = 0
             /\ UNCHANGED <<indexedRepos, repoCache, disk, embCache, store>>
       /\ \A t \in Tasks :
            (task[t].pc = "idle" /\ task'[t].pc = "fetching"
               /\ task'[t].op = "index")
            => (task'[t].force \/ task'[t].url \notin indexedRepos)]_vars

C5_Witness ==
    /\ ret.op = "index" /\ ~ret.force /\ ret.success /\ ret.cloneCalls = 0
    /\ ret.url \in indexedRepos
    /\ IdsOfRepo(store, ret.url) # {}

\* C6: is_indexed(u) holds exactly when a run of u has returned success
\* since the last clear_index(u) or clear_all; so a run that returns
\* success = false leaves is_indexed(u) as it was.
C6_IndexedIffSucceeded ==
    \A u \in Urls : IsIndexed(u) <=> u \in okSince

C6_Witness ==
    /\ ret.op = "index" /\ ~ret.success /\ ret.force /\ ret.log # <<>>
    /\ IsIndexed(ret.url)
    /\ \E u \in GoodUrls : ~IsIndexed(u)

KeyOf(u) == GetCacheKey(ParseGithubUrl(u))

\* C7: at no time are two fetches into the target directory of one cache
\* key in progress.
C7_OneFetchPerKey ==
    \A k \in Keys : Cardinality({t \in Tasks : Fetching(t, k)}) <= 1

\* An entry under key that exists, whose directory exists, and which is
\* younger than the ttl.
EntryValid(key) ==
    /\ repoCache[key] # NoEntry
    /\ disk[key] # "absent"
    /\ repoCache[key].cloned_at # NoTime
    /\ now - repoCache[key].cloned_at < CacheTtl

\* C8 (amended): clone(url, force = False) returns the cached entry without
\* a fetch only when the entry exists, its directory exists and its age is
\* below the ttl, and starts a fetch only when that is not so; a fetch that
\* succeeds replaces the entry with one whose cloned_at is the time of
\* completion, and a fetch that fails leaves the cache as it was.
C8_CacheValidity ==
    [][/\ (Returns /\ ret'.op = "clone" /\ ~ret'.force /\ ret'.hit)
          => /\ EntryValid(KeyOf(ret'.url))
             /\ ret'.fetches = 0
             /\ UNCHANGED <<repoCache, disk>>
       /\ \A t \in Tasks :
            (task[t].pc = "idle" /\ task'[t].pc = "fetching"
               /\ task'[t].op = "clone" /\ ~task'[t].force)
            => /\ ~EntryValid(KeyOf(task'[t].url))
               /\ disk'[KeyOf(task'[t].url)] = "absent"
       /\ (Returns /\ ret'.op = "clone" /\ ~ret'.force /\ ret'.fetches = 1)
          => IF ret'.success
             THEN /\ repoCache'[KeyOf(ret'.url)].cloned_at = now
                  /\ repoCache'[KeyOf(ret'.url)].local_path
                        = GetLocalPath(ParseGithubUrl(ret'.url))
             ELSE repoCache' = repoCache]_vars

\* An unforced clone has just returned the entry of a finished fetch from
\* the cache, with no fetch in progress.
C8_Witness ==
    /\ ret.op = "clone" /\ ret.hit /\ ~ret.force /\ ret.success
    /\ ret.fetches = 0 /\ ret.dir = "complete"
    /\ EntryValid(KeyOf(ret.url))
    /\ \A t \in Tasks : task[t].pc = "idle"

\* C8 as stated: every unforced clone of a repository that does not return
\* the cached entry ends with the entry replaced by one cloned just now.
C8_EveryMissReplacesEntry ==
    [][(Returns /\ ret'.op = "clone" /\ ~ret'.force /\ ~ret'.hit
          /\ ParseGithubUrl(ret'.url) # Invalid)
        => repoCache'[KeyOf(ret'.url)].cloned_at = now]_vars

\* C9: a clone reports the failure of its fetch only after three attempts.
C9_FailureAfterThreeAttempts ==
    (ret.op = "clone" /\ ~ret.success /\ ret.fetches > 0) => ret.fetches = 3

RECURSIVE CountSent(_)
CountSent(sent) ==
    IF sent = <<>> THEN 0 ELSE Len(Head(sent)) + CountSent(Tail(sent))

\* C10: an embed_many call on a cold cache hands each distinct text of its
\* input to the model once, and returns for every position the vector
\* embed returns for the text there.
C10_DistinctTextsOnce ==
    [][(Returns /\ ret'.op = "embed_many" /\ ret'.success /\ embCache = <<>>)
        => /\ CountSent(ret'.sent) = Cardinality(SeqToSet(ret'.texts))
           /\ \A i \in 1..Len(ret'.texts) :
                 ret'.vectors[i] = EmbedOne(ret'.texts[i], embCache').vector]_vars

\* C11: an embed_many call that returns, whatever the cache held, returns
\* one vector per input text, the i-th being the embedding of texts[i]; the
\* misses went to the provider in sub-batches of 1..batch_size texts, in
\* input order, and every text of the call is cached afterwards.
C11_EmbedManyOrder ==
    [][(Returns /\ ret'.op = "embed_many" /\ ret'.success)
        => /\ Len(ret'.vectors) = Len(ret'.texts)
           /\ \A i \in 1..Len(ret'.texts) :
                 ret'.vectors[i] = ProviderEmbed(ret'.texts[i])
           /\ \A k \in 1..Len(ret'.sent) :
                 Len(ret'.sent[k]) \in 1..EmbBatchSize
           /\ CountSent(ret'.sent)
                 = Cardinality({i \in 1..Len(ret'.texts) :
                                  EmbCacheKey(ret'.texts[i]) \notin DOMAIN embCache})
           /\ \A i \in 1..Len(ret'.texts) :
                 EmbCacheKey(ret'.texts[i]) \in DOMAIN embCache']_vars

\* A call of four texts whose second was the only hit has returned, the
\* three misses having gone out in two sub-batches.
C11_Witness ==
    /\ ret.op = "embed_many" /\ ret.success
    /\ Len(ret.texts) = 4 /\ Len(ret.sent) = 2 /\ CountSent(ret.sent) = 3
    /\ \A k \in 1..Len(ret.sent) : ret.texts[2] \notin SeqToSet(ret.sent[k])
    /\ ret.vectors[1] # ret.vectors[2]

\* The cosine behind a score is at least 0.5.
AtLeastHalf(score) == score.num * 4 >= score.den

\* C12: a search of the search tool (execute, search_by_file_pattern) that
\* succeeds returns the hits the vector store delivered whose score is at
\* least the threshold, each once: none below it, none at or above it
\* dropped.
C12_ThresholdExact ==
    [][(Returns /\ ret'.success
          /\ ret'.op \in {"execute", "search_by_file_pattern"})
        => /\ ret'.raw = Search(store, ret'.q, ret'.top_k, ret'.filter)
           /\ \A j \in 1..Len(ret'.hits) : AtLeastHalf(ret'.hits[j].score)
           /\ \A i \in 1..Len(ret'.raw) :
                 AtLeastHalf(ret'.raw[i].score)
                 => \E j \in 1..Len(ret'.hits) :
                       ret'.hits[j] = FormatHit(ret'.raw[i])
           /\ \A j \in 1..Len(ret'.hits) :
                 \E i \in 1..Len(ret'.raw) :
                    ret'.hits[j] = FormatHit(ret'.raw[i])
           /\ Len(ret'.hits)
                 = Cardinality({i \in 1..Len(ret'.raw) :
                                  AtLeastHalf(ret'.raw[i].score)})]_vars

\* A search has kept a hit whose score is exactly the threshold and has
\* dropped one below it.
C12_Witness ==
    /\ ret.op = "execute" /\ ret.success
    /\ \E j \in 1..Len(ret.hits) : ret.hits[j].score = ScoreThreshold
    /\ \E i \in 1..Len(ret.raw) : ~AtLeastHalf(ret.raw[i].score)

\* The ids of a store, in store order.
IdsInOrder(st) == [i \in 1..Len(st) |-> st[i].id]

\* The place of an id in a store.
PlaceOf(st, id) == CHOOSE i \in 1..Len(st) : st[i].id = id

\* C13: add and add_batch leave every stored id at its place and put new
\* ids behind them, so the store order is the order of first insertion;
\* the hits of a search are in non-increasing score order and hits of equal
\* score are in store order; the hits the search tool returns are in the
\* order the store delivered them.
C13_SearchOrder ==
    [][/\ (Returns /\ ret'.op \in {"add", "add_batch"})
          => /\ Len(store') >= Len(store)
             /\ SubSeq(IdsInOrder(store'), 1, Len(store)) = IdsInOrder(store)
       /\ (Returns /\ ret'.op = "search")
          => \A i, j \in 1..Len(ret'.hits) :
                i < j
                => /\ ~ScoreLess(ret'.hits[i].score, ret'.hits[j].score)
                   /\ ret'.hits[i].score = ret'.hits[j].score
                      => PlaceOf(store, ret'.hits[i].id)
                           < PlaceOf(store, ret'.hits[j].id)
       /\ (Returns /\ ret'.success
             /\ ret'.op \in {"execute", "search_by_file_pattern"})
          => \A i, j \in 1..Len(ret'.hits) :
                i < j
                => \E a, b \in 1..Len(ret'.raw) :
                      /\ a < b
                      /\ ret'.hits[i] = FormatHit(ret'.raw[a])
                      /\ ret'.hits[j] = FormatHit(ret'.raw[b])]_vars

\* A search has returned two hits of equal score, the id inserted first
\* ahead although it is the greater id.
C13_Witness ==
    /\ ret.op = "search" /\ Len(ret.hits) >= 2
    /\ ret.hits[1].score = ret.hits[2].score
    /\ ret.hits[1].id = "y" /\ ret.hits[2].id = "x"
    /\ ret.hits[2].content = "cx1"

\* C14: a search with top_k and a filter returns min(top_k, m) hits, m the
\* number of stored entries whose metadata satisfies the filter; every hit
\* is such an entry, no entry is returned twice, and no matching entry left
\* out scores higher than a hit.
C14_TopKAfterFilter ==
    [][(Returns /\ ret'.op = "search")
        => LET m == {i \in 1..Len(store) :
                        MatchesFilter(store[i].metadata, ret'.filter)}
               got == {ret'.hits[j].id : j \in 1..Len(ret'.hits)}
           IN  /\ Len(ret'.hits) = Min(ret'.top_k, Cardinality(m))
               /\ Cardinality(got) = Len(ret'.hits)
               /\ got \subseteq {store[i].id : i \in m}
               /\ \A i \in m :
                     store[i].id \notin got
                     => \A j \in 1..Len(ret'.hits) :
                           ~ScoreLess(ret'.hits[j].score,
                                      CosineSimilarity(ret'.q, store[i].embedding))]_vars

\* A filtered search has filled its top_k slots while an entry failing the
\* filter scores higher than its last hit and a matching entry is left out.
C14_Witness ==
    /\ ret.op = "search" /\ ret.filter # <<>>
    /\ ret.top_k >= 1 /\ Len(ret.hits) = ret.top_k
    /\ \E i \in 1..Len(store) :
          /\ ~MatchesFilter(store[i].metadata, ret.filter)
          /\ ScoreLess(ret.hits[Len(ret.hits)].score,
                       CosineSimilarity(ret.q, store[i].embedding))
    /\ \E i \in 1..Len(store) :
          /\ MatchesFilter(store[i].metadata, ret.filter)
          /\ \A j \in 1..Len(ret.hits) : ret.hits[j].id # store[i].id

\* The last item of a batch that carries id.
LastWith(items, id) ==
    items[CHOOSE i \in 1..Len(items) :
            /\ items[i].id = id
            /\ \A j \in (i + 1)..Len(items) : items[j].id # id]

\* C15: add and add_batch succeed; afterwards every id of the call is stored
\* once with the vector, content and metadata of its last occurrence in the
\* call, an id stored before does not add to the number of entries, and
\* every other entry is as it was.
C15_UpsertEveryBackend ==
    [][(Returns /\ ret'.op \in {"add", "add_batch"})
        => LET called == {ret'.items[i].id : i \in 1..Len(ret'.items)}
               before == {store[i].id : i \in 1..Len(store)}
           IN  /\ ret'.success
               /\ Len(store') = Cardinality(before \cup called)
               /\ \A id \in called :
                     \E i \in 1..Len(store') :
                        store'[i] = LastWith(ret'.items, id)
               /\ \A i \in 1..Len(store) :
                     store[i].id \notin called
                     => \E j \in 1..Len(store') : store'[j] = store[i]]_vars

\* C16: a search (search_code, SearchTool.execute, search_by_file_pattern)
\* made while the repository has no index record returns failure and no
\* hits, having embedded no query and searched no store.
C16_NotIndexedNoSearch ==
    (ret.op \in {"search_code", "execute", "search_by_file_pattern"}
       /\ ~ret.indexed)
    => /\ ~ret.success
       /\ ret.hits = <<>>
       /\ ret.embedCalls = 0
       /\ ret.storeCalls = 0

\* C17: the chunks of a non-blank content of L lines: the first starts at
\* line 1, the last ends at line L, each later chunk starts no later than
\* the line after the end of its predecessor, and the content of every
\* chunk is the whole lines start_line..end_line.
C17_ChunkCoverage ==
    (ret.op = "chunk" /\ ~IsBlank(ret.texts))
    => /\ Len(ret.items) >= 1
       /\ ret.items[1].start_line = 1
       /\ ret.items[Len(ret.items)].end_line = Len(ret.texts)
       /\ \A n \in 2..Len(ret.items) :
             ret.items[n].start_line <= ret.items[n - 1].end_line + 1
       /\ \A n \in 1..Len(ret.items) :
             /\ 1 <= ret.items[n].start_line
             /\ ret.items[n].start_line <= ret.items[n].end_line
             /\ ret.items[n].end_line <= Len(ret.texts)
             /\ ret.items[n].content
                  = SubSeq(ret.texts, ret.items[n].start_line, ret.items[n].end_line)

\* A content has been cut into three chunks, the second seeded with two
\* lines of the first.
C17_Witness ==
    /\ ret.op = "chunk" /\ Len(ret.items) = 3
    /\ ret.items[2].start_line = ret.items[1].end_line - 1

\* C18: the lines chunk n + 1 shares with chunk n are the last lines of
\* chunk n, and their total size (len + 1 each) is within chunk_overlap.
C18_OverlapBound ==
    (ret.op = "chunk")
    => \A n \in 1..(Len(ret.items) - 1) :
          /\ ret.items[n + 1].start_line >= ret.items[n].start_line
          /\ ret.items[n + 1].start_line <= ret.items[n].end_line + 1
          /\ ret.items[n + 1].end_line >= ret.items[n].end_line
          /\ SumLen(SubSeq(ret.texts, ret.items[n + 1].start_line,
                           ret.items[n].end_line)) <= ChunkOverlap

\* A chunk has been closed whose last line is too long to be seeded and
\* another whose last line was seeded.
C18_Witness ==
    /\ ret.op = "chunk" /\ Len(ret.items) = 3
    /\ ret.items[2].start_line = ret.items[1].end_line + 1
    /\ ret.items[3].start_line = ret.items[2].end_line

WrittenIds(log) ==
    UNION {{log[j].items[k].id : k \in 1..Len(log[j].items)} :
              j \in 1..Len(log)}

\* C20: after a run of index_repository that returns success = false, every
\* item a flush of that run stored is in the store as written, and every
\* entry the store held before the run under an id the run did not write
\* is still there unchanged.
C20_NoRollback ==
    [][(Ready /\ ret'.op = "index" /\ ~ret'.success)
       => /\ \A j \in 1..Len(ret'.log) : \A k \in 1..Len(ret'.log[j].items) :
                \E p \in DOMAIN store' : store'[p] = ret'.log[j].items[k]
          /\ \A p \in DOMAIN store :
                store[p].id \notin WrittenIds(ret'.log)
                => \E q \in DOMAIN store' : store'[q] = store[p]]_vars

\* A run has failed in its last flush after a flush that stored two chunks,
\* with the chunks of an earlier run of another URL in the store.
C20_Witness ==
    /\ ret.op = "index" /\ ~ret.success
    /\ Len(ret.log) = 2 /\ ret.log[1].ok /\ ~ret.log[2].ok
    /\ Len(ret.log[1].items) = 2
    /\ \A k \in 1..2 : \E p \in DOMAIN store : store[p] = ret.log[1].items[k]
    /\ \E p \in DOMAIN store : store[p].id \notin WrittenIds(ret.log)

\* C21: every hit of a search issued for a repository carries that
\* repository's URL in metadata.repo_url.
C21_SearchIsolation ==
    (ret.op = "search_code" /\ ret.success)
    => \A i \in 1..Len(ret.raw) : ret.raw[i].metadata.repo_url = ret.url

\* C22: every RepoInfo clone returns, fetched or taken from the cache,
\* refers to a directory that a completed fetch produced and that has not
\* been removed or partly rewritten since.
C22_ReturnedCheckoutComplete ==
    (ret.op = "clone" /\ ret.success) => ret.dir = "complete"

\* The chunks of the first n files of a repository that yield chunks.
RECURSIVE ChunksOfFiles(_, _)
ChunksOfFiles(u, n) ==
    IF n = 0 THEN 0
    ELSE ChunksOfFiles(u, n - 1)
         + (IF ProcessFile(RepoFiles[n], u).raised THEN 0
            ELSE Len(ProcessFile(RepoFiles[n], u).chunks))

\* C23: a run through the full path that returns success = true counts
\* every enumerated file once, as indexed or as skipped, and total_chunks
\* is the number of chunks of the files counted as indexed.
C23_CountsAddUp ==
    (ret.op = "index" /\ ret.success /\ ret.dir # None)
    => /\ ret.indexed_files + ret.skipped_files = ret.total_files
       /\ ret.total_chunks = ChunksOfFiles(ret.url, ret.total_files)

\* C24: every batch index_repository hands to _index_batch holds at most
\* batch_size chunks.
C24_BatchWithinBatchSize ==
    (ret.op = "index") => \A j \in 1..Len(ret.log) : ret.log[j].n <= BatchSize

\* The cache keys of the texts of the first n sub-batches sent.
SentKeys(sent, n) ==
    UNION {{EmbCacheKey(sent[k][j]) : j \in 1..Len(sent[k])} : k \in 1..n}

\* C25: an embed_many call in which the provider fails on sub-batch k
\* raises and returns no vectors; afterwards the cache holds what it held
\* before the call, unchanged, and the texts of the sub-batches before k,
\* and nothing else: no text first computed in sub-batch k or later.
C25_FailedSubBatchCache ==
    [][(Returns /\ ret'.op = "embed_many" /\ ~ret'.success)
        => /\ ret'.vectors = <<>>
           /\ Len(ret'.sent) >= 1
           /\ DOMAIN embCache'
                = DOMAIN embCache \cup SentKeys(ret'.sent, Len(ret'.sent) - 1)
           /\ \A key \in DOMAIN embCache : embCache'[key] = embCache[key]
           /\ \A key \in SentKeys(ret'.sent, Len(ret'.sent) - 1) :
                 embCache'[key] = ProviderEmbed(key[2])]_vars

\* A call of four texts has failed on its second sub-batch: one text was a
\* hit, the texts of the first sub-batch are cached, that of the second is
\* not.
C25_Witness ==
    /\ ret.op = "embed_many" /\ ~ret.success
    /\ Len(ret.texts) = 4 /\ Len(ret.sent) = 2
    /\ \E i \in 1..4 : \A k \in 1..2 : ret.texts[i] \notin SeqToSet(ret.sent[k])
    /\ SentKeys(ret.sent, 1) \subseteq DOMAIN embCache
    /\ \E j \in 1..Len(ret.sent[2]) :
          EmbCacheKey(ret.sent[2][j]) \notin DOMAIN embCache

\* C26: a search of the in-memory backend that runs while an add_batch is
\* in progress finds the store with none or all of the entries of that
\* batch written: no add_batch is between two of its items when a search
\* reads the store.
C26_SearchSeesWholeBatches ==
    [][(Returns /\ ret'.op = "search")
        => \A t \in Tasks :
              task[t].pc \in {"scheduled", "adding"}
              => task[t].i \in {0, Len(task[t].items)}]_vars

\* A search has returned hits of a finished batch while a second add_batch
\* is scheduled and has written nothing yet.
C26_Witness ==
    /\ ret.op = "search" /\ Len(ret.hits) >= 2
    /\ \E t \in Tasks :
          /\ task[t].pc = "scheduled"
          /\ \E k \in 1..2 : \A p \in DOMAIN store :
                store[p].id # task[t].items[k].id

\* C27 as stated: every chunk after the first starts at the line after the
\* end of its predecessor, so consecutive spans do not intersect.
C27_StartAfterPreviousEnd ==
    (ret.op = "chunk")
    => \A n \in 2..Len(ret.items) :
          ret.items[n].start_line = ret.items[n - 1].end_line + 1

\* C27 as amended: every chunk after the first starts at the first line of
\* its content, seeded lines included: the earliest line of its predecessor
\* from which the lines up to the predecessor's end fit in chunk_overlap
\* (the line after that end when not even the last line fits).
C27_StartCoversSeededLines ==
    (ret.op = "chunk")
    => \A n \in 2..Len(ret.items) :
          /\ ret.items[n].start_line
                \in ret.items[n - 1].start_line..(ret.items[n - 1].end_line + 1)
          /\ \A l \in ret.items[n - 1].start_line..(ret.items[n - 1].end_line + 1) :
                SumLen(SubSeq(ret.texts, l, ret.items[n - 1].end_line))
                   <= ChunkOverlap
                <=> l >= ret.items[n].start_line
          /\ ret.items[n].content[1] = ret.texts[ret.items[n].start_line]

\* A content has been cut in two chunks, the second starting at the last
\* line of the first.
C27_Witness ==
    /\ ret.op = "chunk" /\ Len(ret.items) = 2
    /\ ret.items[2].start_line = ret.items[1].end_line
    /\ ret.items[2].start_line > 1
    /\ ret.items[2].end_line > ret.items[2].start_line

\* C28: no chunk is larger than chunk_size (sum of len + 1 over its lines),
\* except a chunk of one single line that alone is larger.
C28_ChunkWithinChunkSize ==
    (ret.op = "chunk")
    => \A n \in 1..Len(ret.items) :
          \/ SumLen(ret.items[n].content) <= ChunkSize
          \/ Len(ret.items[n].content) = 1

C30_StartStrictlyIncreases ==
    [][\A t \in Tasks :
          (task[t].pc = "chunking" /\ task'[t].pc = "chunking")
          => /\ task'[t].start > task[t].start
             /\ task'[t].start >= 0
             /\ task'[t].chunk_index <= Len(task[t].content)]_vars

====
